---- MODULE Spec2Model ----
(***************************************************************************)
(* Model of the plugin / middleware loader of rivra                        *)
(* (packages/plugin_manager.ts): the directory scan that classifies files  *)
(* into PluginTasks, the sort by `order`, the four registration            *)
(* strategies, and the preHandler hooks the registration installs on the   *)
(* Fastify instance, run against inbound requests.                         *)
(*                                                                         *)
(* Strings (file names, prefixes, routes, URLs) are sequences of           *)
(* one-character strings, so that split, toLowerCase, startsWith, the      *)
(* regular expressions and the concatenations are computed, not assumed.   *)
(* The JavaScript value `undefined` of an optional string is the empty     *)
(* sequence: both are falsy, and the code only ever tests truthiness.      *)
(***************************************************************************)
EXTENDS Integers, Sequences, FiniteSets, TLC

-----------------------------------------------------------------------------
(* Bounds of the model *)

\* most entries in the listing of the plugin root (middleware/ not counted)
MaxRootEntries == 2
\* most files in the listing of the middleware/ directory
MaxMwEntries == 2
\* the time, in ms, up to which the file watcher is followed
MaxTime == 300
\* most file system events the watcher receives
MaxEvents == 3
\* most calls of reloadApi, and most changes of files under api/
MaxApiReloads == 2
MaxApiEvents == 1
\* most files in the listing of the client middleware directory
MaxCmEntries == 3
\* most watchers registered on the store
MaxWatchers == 2
\* most entries of the session history, most callbacks (listeners and
\* beforePopState guards) registered on the router, most history.back()
\* traversals not yet done
MaxHistory == 2
MaxCallbacks == 2
MaxTraversals == 1

-----------------------------------------------------------------------------
(* String helpers: what the JavaScript string methods compute *)

Undef == <<>>

Truthy(s) == s # <<>>

\* String.prototype.toLowerCase on one character of the model's alphabet
LowerChar(c) ==
  CASE c = "A" -> "a"
    [] c = "B" -> "b"
    [] c = "U" -> "u"
    [] c = "V" -> "v"
    [] OTHER -> c

ToLowerCase(s) == [i \in 1..Len(s) |-> LowerChar(s[i])]

StartsWith(s, p) == Len(p) <= Len(s) /\ SubSeq(s, 1, Len(p)) = p

EndsWith(s, p) ==
  Len(p) <= Len(s) /\ SubSeq(s, Len(s) - Len(p) + 1, Len(s)) = p

\* String.prototype.indexOf, 1-based; 0 when sep does not occur
IndexOf(s, sep) ==
  LET hits == {i \in 1..Len(s) :
                 i + Len(sep) - 1 <= Len(s) /\ SubSeq(s, i, i + Len(sep) - 1) = sep}
  IN IF hits = {} THEN 0 ELSE CHOOSE i \in hits : \A j \in hits : i <= j

\* s.split(sep)[0]: the part of s before the first occurrence of sep
SplitFirst(s, sep) ==
  IF IndexOf(s, sep) = 0 THEN s ELSE SubSeq(s, 1, IndexOf(s, sep) - 1)

\* s.replace(/\/$/, "")
StripTrailingSlash(s) ==
  IF Len(s) > 0 /\ s[Len(s)] = "/" THEN SubSeq(s, 1, Len(s) - 1) ELSE s

DotTs == <<".", "t", "s">>
DotJs == <<".", "j", "s">>
DotMdDot == <<".", "m", "d", ".">>
DotPgDot == <<".", "p", "g", ".">>
SlashApi == <<"/", "a", "p", "i">>
Slash == <<"/">>

\* /\.(ts|js)$/.test(name)
IsScript(name) == EndsWith(name, DotTs) \/ EndsWith(name, DotJs)

\* /\.md\.(ts|js)$/.test(name)
IsMdFile(name) ==
  EndsWith(name, <<".", "m", "d">> \o DotTs) \/ EndsWith(name, <<".", "m", "d">> \o DotJs)

\* /\.pg\.(ts|js)$/.test(name)
IsPgFile(name) ==
  EndsWith(name, <<".", "p", "g">> \o DotTs) \/ EndsWith(name, <<".", "p", "g">> \o DotJs)

\* [a-zA-Z0-9_-]
IsWordChar(c) == c \notin {"/", ".", "?"}

\* length of the longest run of [a-zA-Z0-9_-] in s starting at position i
RECURSIVE WordRun(_, _)
WordRun(s, i) ==
  IF i <= Len(s) /\ IsWordChar(s[i]) THEN 1 + WordRun(s, i + 1) ELSE 0

\* dir.match(/\/api(\/[a-zA-Z0-9_-]+)?/): the matched text, Undef when no match
ApiMatch(dir) ==
  LET i == IndexOf(dir, SlashApi)
      j == i + Len(SlashApi)
  IN IF i = 0 THEN Undef
     ELSE IF j <= Len(dir) /\ dir[j] = "/" /\ WordRun(dir, j + 1) > 0
          THEN SubSeq(dir, i, j + WordRun(dir, j + 1))
          ELSE SlashApi

-----------------------------------------------------------------------------
(* The inputs: a plugin directory on disk and the modules in it *)

\* a module as the dynamic import sees it: the import throws, or it yields
\* exports with or without a function, and with or without a numeric `order`;
\* orderType is typeof mod.order, arity the length of the exported function
Mod(status, hasOrder, order) ==
  [status |-> status, hasOrder |-> hasOrder, order |-> order,
   orderType |-> IF hasOrder THEN "number" ELSE "undefined", arity |-> 2]

\* the module with a function of n declared parameters
WithArity(mod, n) == [mod EXCEPT !.arity = n]

\* the module with `export const order = "<n>"`, a string
WithStringOrder(mod, n) ==
  [mod EXCEPT !.hasOrder = TRUE, !.order = n, !.orderType = "string"]

NoMod == Mod("none", FALSE, 0)

File(name, mod) == [kind |-> "file", name |-> name, mod |-> mod, entries |-> <<>>]

Dir(name, entries) == [kind |-> "dir", name |-> name, mod |-> NoMod, entries |-> entries]

Middleware == <<"m", "i", "d", "d", "l", "e", "w", "a", "r", "e">>

N_l_ts == <<"l">> \o DotTs
N_c_ts == <<"c">> \o DotTs
N_i_ts == <<"i">> \o DotTs
N_n_ts == <<"n">> \o DotTs
N_t_js == <<"t">> \o DotJs
N_r_txt == <<"r", ".", "t", "x", "t">>
N_a_md_ts == <<"a">> \o DotMdDot \o <<"t", "s">>
N_B_md_js == <<"B">> \o DotMdDot \o <<"j", "s">>
N_a_pg_ts == <<"a">> \o DotPgDot \o <<"t", "s">>
N_ambmd_ts == <<"a">> \o DotMdDot \o <<"b">> \o DotMdDot \o <<"t", "s">>

\* the files that may lie in middleware/
MwPool ==
  { File(N_l_ts, Mod("fn", FALSE, 0)),
    File(N_a_pg_ts, Mod("fn", TRUE, 1)),
    File(N_a_md_ts, Mod("fn", FALSE, 0)) }

\* the entries that may lie directly in the plugin root
RootPool ==
  { File(N_c_ts, WithArity(Mod("fn", TRUE, 1), 1)),
    File(N_a_md_ts, Mod("fn", FALSE, 0)),
    File(N_B_md_js, Mod("fn", TRUE, 20)),
    File(N_a_pg_ts, WithStringOrder(Mod("fn", FALSE, 0), 1)),
    File(N_ambmd_ts, Mod("fn", FALSE, 0)),
    File(N_t_js, Mod("throws", FALSE, 0)),
    Dir(<<"U">>, <<File(N_i_ts, Mod("fn", FALSE, 0))>>),
    Dir(<<"V">>, <<File(N_r_txt, NoMod),
                   File(N_n_ts, Mod("nofn", TRUE, 1)),
                   File(N_a_pg_ts, Mod("fn", TRUE, 1)),
                   Dir(<<"U">>, <<File(N_i_ts, Mod("fn", TRUE, 20)),
                                  File(N_c_ts, WithArity(Mod("fn", FALSE, 0), 3))>>)>>) }

\* the listings of at most n entries of S: any order, no name twice
Listings(S, n) ==
  UNION {{s \in [1..k -> S] : \A i, j \in 1..k : i # j => s[i].name # s[j].name}
         : k \in 0..n}

\* the paths the plugin root may have (the registration looks for /api in it)
RootDirs == { <<"/", "p">>, <<"/", "a", "p", "i", "/", "s", "/", "p">> }

\* the listing of the plugin root: its entries and, when there is one, the
\* middleware directory (listed last: the code skips it wherever it stands)
RootListings ==
  { r \o m : r \in Listings(RootPool, MaxRootEntries),
             m \in {<<>>} \cup {<<Dir(Middleware, l)>> : l \in Listings(MwPool, MaxMwEntries)} }

\* the URLs of the requests the server receives
U_api_a == SlashApi \o <<"/", "a">>
U_api_a_slash == U_api_a \o Slash
U_api_a_x == U_api_a \o <<"/", "x">>
U_api_ab == U_api_a \o <<"b">>
U_api_b == SlashApi \o <<"/", "b">>
U_api_u_x == SlashApi \o <<"/", "u", "/", "x">>
U_api_v_u == SlashApi \o <<"/", "v", "/", "u">>
U_x == <<"/", "x">>

Urls == { U_api_a, U_api_a_slash, U_api_a_x, U_api_ab, U_api_b, U_api_u_x, U_api_v_u, U_x }

-----------------------------------------------------------------------------
(* State *)

VARIABLES
  dir,        \* the plugin root: [path, exists, entries]
  pc,         \* position in registerPlugins: start, scan, register, serve, done, failed
  work,       \* directory entries still to visit, depth first
  pluginTasks,\* the task list of registerPlugins
  collected,  \* history: the task list as the scan left it, before the sort
  next,       \* index of the next task to register
  regLog,     \* the calls made on the server: addHook / register, in order
  hooks,      \* the preHandler hooks of the root Fastify instance, in order
  reqUrl,     \* the URL of the last request served
  calls,      \* the user handlers the last request invoked, in order
  importing,  \* the dynamic imports of collectSinglePlugin that are in flight
  previous    \* history: the task lists of the scan before this one, if there was one

\* the plugin loader
loaderVars == <<dir, pc, work, pluginTasks, collected, next, regLog, hooks, reqUrl, calls,
                importing, previous>>

VARIABLES
  watching,       \* watchProject has run: the watcher on the plugin directory is installed
  now,            \* the time in ms
  disk,           \* the plugin directory: what the import of each file yields, or absent
  timers,         \* the due times of the armed timeouts
  pluginTimer,    \* the timeout handle the watcher callback keeps (its due time)
  passes,         \* the reloadPlugins calls in progress, each awaiting an import
  pluginHandlers, \* the keys of the handler cache
  events,         \* history: the number of watcher events so far
  eventTimes,     \* history: the times of the events on .ts/.js files
  timerReloads,   \* history: the times at which the timeout started a reload
  lastDone        \* history: the last completed pass, as [loaded, cache]

\* the hot reload of the plugins
reloadVars == <<watching, now, disk, timers, pluginTimer, passes, pluginHandlers,
                events, eventTimes, timerReloads, lastDone>>

VARIABLES
  apiDisk,        \* the api directory: what the import of each file yields, or absent
  apiHandlers,    \* the Map apiHandlers: the handler under each API path, or none
  apiPasses,      \* the reloadApi calls in progress, each awaiting an import
  apiReloads,     \* history: the number of reloadApi calls so far
  apiEvents,      \* history: the number of changes of files under api/ so far
  lastSettle      \* history: the last import of reloadApi that settled

\* the hot reload of the API handlers
apiVars == <<apiDisk, apiHandlers, apiPasses, apiReloads, apiEvents, lastSettle>>

VARIABLES
  cmPc,           \* position in registerClientMiddleware: scan, serve
  cmWork,         \* the entries of the directory listing still to visit
  cmTasks,        \* the task list of registerClientMiddleware
  cmUrl,          \* the URL of the last request served
  cmCalls         \* the tasks whose handler the last request invoked, in order

\* the client middleware
cmVars == <<cmPc, cmWork, cmTasks, cmUrl, cmCalls>>

VARIABLES
  heap,           \* the state objects of the store, by identity
  value,          \* `value`: the identity of the current state object
  prevValue,      \* `prevValue`: the identity of the state object before it
  watchers,       \* the watchers, each the key its selector reads
  lastOp,         \* history: the last operation, with the state before and after it
  notified        \* history: the watcher callbacks the last operation made

\* the store
storeVars == <<heap, value, prevValue, watchers, lastOp, notified>>

\* what each part of the program leaves alone
VARIABLES
  path,           \* RouterStore.path
  queries,        \* RouterStore.queries, as the query string they were read from
  loading,        \* RouterStore.loading
  listeners,      \* RouterStore.listeners: the number of callbacks of each event type
  beforePop,      \* RouterStore.beforePop: the guards, in the order they were added
  histEntries,    \* window.history: the URLs of the session history
  histIndex,      \* window.history: the position of the current entry
  traversals,     \* the history.back() traversals the browser has not done yet
  routerOp,       \* history: the last navigation, if one was made since the callbacks changed
  emitted         \* history: the listener calls that navigation made, in order

routerVars == <<path, queries, loading, listeners, beforePop, histEntries, histIndex,
                traversals, routerOp, emitted>>

notLoaderVars == <<reloadVars, apiVars, cmVars, storeVars, routerVars>>
notReloadVars == <<loaderVars, apiVars, cmVars, storeVars, routerVars>>
notApiVars == <<loaderVars, reloadVars, cmVars, storeVars, routerVars>>
notCmVars == <<loaderVars, reloadVars, apiVars, storeVars, routerVars>>
notStoreVars == <<loaderVars, reloadVars, apiVars, cmVars, routerVars>>
notRouterVars == <<loaderVars, reloadVars, apiVars, cmVars, storeVars>>

vars == <<loaderVars, reloadVars, apiVars, cmVars, storeVars, routerVars>>

-----------------------------------------------------------------------------
(* collectSinglePlugin *)

\* the handler a task carries: for middleware the (req, reply) wrapper around
\* the module's function, for a plugin the fastify-plugin wrapped setup
\* function, which closes over the prefix the task was collected with
Wrapped(style, filePath, prefix, arity) ==
  [style |-> style, fn |-> filePath, prefix |-> prefix, arity |-> arity]

\* variant: the route keeps the case of the file name
RouteOfCaseKept(fileName) == Slash \o SplitFirst(fileName, DotMdDot)

\* the route of a *.md.(ts|js) file
RouteOf(fileName) == Slash \o ToLowerCase(SplitFirst(fileName, DotMdDot))

\* variant: the file name's prefix is taken whether or not a prefix is set
PrefixOfFileNameWins(fileName, prefix) ==
  IF IsPgFile(fileName)
  THEN SlashApi \o Slash \o ToLowerCase(SplitFirst(fileName, DotPgDot))
  ELSE prefix

\* the prefix of a *.pg.(ts|js) file, taken only when no prefix is set yet
PrefixOf(fileName, prefix) ==
  IF ~Truthy(prefix) /\ IsPgFile(fileName)
  THEN SlashApi \o Slash \o ToLowerCase(SplitFirst(fileName, DotPgDot))
  ELSE prefix

\* variant: the `order` export is taken whatever its type
OrderOfAnyExport(mod) == IF mod.hasOrder THEN mod.order ELSE 10

\* typeof mod.order === "number" ? mod.order : 10
OrderOf(mod) == IF mod.orderType = "number" THEN mod.order ELSE 10

\* the task collectSinglePlugin pushes for a module that exports a function
TaskOf(e, filePath, prefix, isMiddleware) ==
  LET isMd == IsMdFile(e.name)
      route == IF isMd THEN RouteOf(e.name) ELSE Undef
      mw == isMiddleware \/ isMd
      pfx == PrefixOf(e.name, prefix)
  IN [handler |-> Wrapped(IF mw THEN "middleware" ELSE "plugin", filePath, pfx, e.mod.arity),
      prefix |-> pfx,
      order |-> OrderOf(e.mod),
      isMiddleware |-> mw,
      fileName |-> e.name,
      route |-> route]

\* variant: a module without a function export is made a task all the same
CollectSinglePluginUnchecked(tasks, e, filePath, prefix, isMiddleware) ==
  IF e.mod.status = "throws"
  THEN tasks
  ELSE Append(tasks, TaskOf(e, filePath, prefix, isMiddleware))

\* the task list after collectSinglePlugin(tasks, filePath, prefix, isMiddleware)
CollectSinglePlugin(tasks, e, filePath, prefix, isMiddleware) ==
  IF e.mod.status # "fn"
  THEN tasks      \* the import threw (caught and logged), or no function export
  ELSE Append(tasks, TaskOf(e, filePath, prefix, isMiddleware))

-----------------------------------------------------------------------------
(* The scan: registerPlugins' loop over the root and collectPlugins *)

\* a call collectSinglePlugin(tasks, filePath, prefix, isMiddleware) awaiting its import
Import(e, filePath, prefix, isMiddleware) ==
  [e |-> e, filePath |-> filePath, prefix |-> prefix, isMiddleware |-> isMiddleware]

Item(e, parent, prefix, isMiddleware, top) ==
  [e |-> e, parent |-> parent, prefix |-> prefix, isMiddleware |-> isMiddleware, top |-> top]

\* the entries of directory d as work items of collectPlugins(d, prefix, isMiddleware)
Children(d, parent, prefix, isMiddleware) ==
  [i \in 1..Len(d.entries) |->
     Item(d.entries[i], Append(parent, d.name), prefix, isMiddleware, FALSE)]

HasMiddlewareDir(entries) ==
  \E i \in 1..Len(entries) : entries[i].name = Middleware /\ entries[i].kind = "dir"

MiddlewareDirOf(entries) ==
  entries[CHOOSE i \in 1..Len(entries) : entries[i].name = Middleware /\ entries[i].kind = "dir"]

\* variant: the middleware directory is collected after the other entries
StartMiddlewareLast ==
  /\ pc = "start"
  /\ IF ~dir.exists
     THEN /\ pc' = "done"
          /\ work' = <<>>
     ELSE /\ pc' = "scan"
          /\ work' =
               [i \in 1..Len(dir.entries) |-> Item(dir.entries[i], <<>>, Undef, FALSE, TRUE)]
               \o (IF HasMiddlewareDir(dir.entries)
                   THEN Children(MiddlewareDirOf(dir.entries), <<>>, Undef, TRUE)
                   ELSE <<>>)
  /\ UNCHANGED <<dir, previous, pluginTasks, collected, next, regLog, hooks, reqUrl, calls>>
  /\ UNCHANGED importing
  /\ UNCHANGED notLoaderVars

\* registerPlugins up to the loop over the root: nothing to do without the
\* directory; otherwise the middleware directory is collected first
Start ==
  /\ pc = "start"
  /\ IF ~dir.exists
     THEN /\ pc' = "done"
          /\ work' = <<>>
     ELSE /\ pc' = "scan"
          /\ work' =
               (IF HasMiddlewareDir(dir.entries)
                THEN Children(MiddlewareDirOf(dir.entries), <<>>, Undef, TRUE)
                ELSE <<>>)
               \o [i \in 1..Len(dir.entries) |-> Item(dir.entries[i], <<>>, Undef, FALSE, TRUE)]
  /\ UNCHANGED <<dir, previous, pluginTasks, collected, next, regLog, hooks, reqUrl, calls>>
  /\ UNCHANGED importing
  /\ UNCHANGED notLoaderVars

\* the body of one iteration of registerPlugins' loop over the entries of the root
ScanRootEntryBody ==
  /\ pc = "scan"
  /\ work # <<>>
  /\ Head(work).top
  /\ LET it == Head(work)
         e == it.e
     IN IF e.name = Middleware
        THEN /\ work' = Tail(work)
             /\ UNCHANGED importing
        ELSE IF e.kind = "dir"
        THEN /\ work' = Children(e, it.parent, SlashApi \o Slash \o ToLowerCase(e.name), FALSE)
                          \o Tail(work)
             /\ UNCHANGED importing
        ELSE IF IsScript(e.name)
        THEN /\ work' = Tail(work)
             /\ importing' =
                  Append(importing, Import(e, Append(it.parent, e.name), Undef, FALSE))
        ELSE /\ work' = Tail(work)
             /\ UNCHANGED importing
  /\ UNCHANGED <<dir, previous, pc, pluginTasks, collected, next, regLog, hooks, reqUrl, calls>>
  /\ UNCHANGED notLoaderVars

\* variant: collectSinglePlugin is called without await, the loop goes on at once
ScanRootEntryNotAwaited == ScanRootEntryBody

\* one iteration of registerPlugins' loop over the entries of the root; the loop
\* awaits collectPlugins and collectSinglePlugin
ScanRootEntry ==
  /\ importing = <<>>
  /\ ScanRootEntryBody

\* variant: the name of the nested directory takes the place of its parent's
NestedPrefixChildOnly(prefix, name) ==
  IF Truthy(prefix) THEN SlashApi \o Slash \o ToLowerCase(name) ELSE Undef

\* prefix ? prefix + "/" + entry.name.toLowerCase() : undefined
NestedPrefix(prefix, name) ==
  IF Truthy(prefix) THEN prefix \o Slash \o ToLowerCase(name) ELSE Undef

\* the body of one iteration of collectPlugins' loop over the entries of a directory
ScanDirEntryBody ==
  /\ pc = "scan"
  /\ work # <<>>
  /\ ~Head(work).top
  /\ LET it == Head(work)
         e == it.e
     IN IF e.kind = "dir"
        THEN /\ work' = Children(e, it.parent, NestedPrefix(it.prefix, e.name),
                                   it.isMiddleware) \o Tail(work)
             /\ UNCHANGED importing
        ELSE IF ~IsScript(e.name)
        THEN /\ work' = Tail(work)
             /\ UNCHANGED importing
        ELSE /\ work' = Tail(work)
             /\ importing' =
                  Append(importing, Import(e, Append(it.parent, e.name),
                                           it.prefix, it.isMiddleware))
  /\ UNCHANGED <<dir, previous, pc, pluginTasks, collected, next, regLog, hooks, reqUrl, calls>>
  /\ UNCHANGED notLoaderVars

\* variant: collectSinglePlugin is called without await, the loop goes on at once
ScanDirEntryNotAwaited == ScanDirEntryBody

\* one iteration of collectPlugins' loop over the entries of a directory; the
\* loop awaits collectSinglePlugin, so it does not go on while an import is in flight
ScanDirEntry ==
  /\ importing = <<>>
  /\ ScanDirEntryBody

\* the import of collectSinglePlugin settles: a module with a function export
\* becomes a task at the end of the list, any other outcome adds nothing
ImportSettles ==
  /\ pc = "scan"
  /\ \E i \in 1..Len(importing) :
       /\ pluginTasks' =
            CollectSinglePlugin(pluginTasks, importing[i].e, importing[i].filePath,
                                importing[i].prefix, importing[i].isMiddleware)
       /\ importing' = SubSeq(importing, 1, i - 1) \o SubSeq(importing, i + 1, Len(importing))
  /\ UNCHANGED <<dir, previous, pc, work, collected, next, regLog, hooks, reqUrl, calls>>
  /\ UNCHANGED notLoaderVars

-----------------------------------------------------------------------------
(* pluginTasks.sort((a, b) => a.order - b.order) *)

\* variant: t is put before the tasks of equal order (an unstable sort)
RECURSIVE InsertByOrderUnstable(_, _)
InsertByOrderUnstable(s, t) ==
  IF s = <<>> THEN <<t>>
  ELSE IF Head(s).order - t.order < 0
       THEN <<Head(s)>> \o InsertByOrderUnstable(Tail(s), t)
       ELSE <<t>> \o s

\* t put into the sorted list s behind every task the comparator does not put after it
RECURSIVE InsertByOrder(_, _)
InsertByOrder(s, t) ==
  IF s = <<>> THEN <<t>>
  ELSE IF Head(s).order - t.order <= 0
       THEN <<Head(s)>> \o InsertByOrder(Tail(s), t)
       ELSE <<t>> \o s

\* variant: the list is left in discovery order
SortByOrderSkipped(ts) == ts

\* Array.prototype.sort is stable: equal elements keep their order
RECURSIVE SortByOrder(_)
SortByOrder(ts) ==
  IF ts = <<>> THEN <<>>
  ELSE InsertByOrder(SortByOrder(SubSeq(ts, 1, Len(ts) - 1)), ts[Len(ts)])

SortTasks ==
  /\ pc = "scan"
  /\ work = <<>>
  /\ importing = <<>>
  /\ collected' = pluginTasks
  /\ pluginTasks' = SortByOrder(pluginTasks)
  /\ next' = 1
  /\ pc' = IF pluginTasks = <<>> THEN "serve" ELSE "register"
  /\ UNCHANGED <<dir, previous, work, regLog, hooks, reqUrl, calls>>
  /\ UNCHANGED importing
  /\ UNCHANGED notLoaderVars

-----------------------------------------------------------------------------
(* Registration: the dispatch of registerPlugins over the sorted tasks *)

Hook(test, arg, handler, nargs, task) ==
  [test |-> test, arg |-> arg, fn |-> handler.fn, nargs |-> nargs, task |-> task]

RegCall(call, task, prefix) == [call |-> call, task |-> task, prefix |-> prefix]

\* the preHandler hook the setup function of a plugin's wrapped handler
\* installs when the server runs it; fastify-plugin makes the server run it
\* on the registering instance itself, so the hook lands on the root instance
PluginHook(handler, task) ==
  IF Truthy(handler.prefix)
  THEN Hook("startsWith", handler.prefix, handler, 3, task)
  ELSE Hook("always", Undef, handler, 3, task)

\* the prefix handed to app.register for a scoped plugin
FullPrefix(dirPath, prefix) ==
  IF Truthy(ApiMatch(dirPath)) THEN ApiMatch(dirPath) \o prefix ELSE prefix

Advance ==
  /\ next' = next + 1
  /\ pc' = IF next = Len(pluginTasks) THEN "serve" ELSE "register"

Registering == pc = "register" /\ next <= Len(pluginTasks)

\* task.isMiddleware && task.route
RegisterRouteMiddleware ==
  /\ Registering
  /\ LET task == pluginTasks[next]
     IN /\ task.isMiddleware /\ Truthy(task.route)
        /\ hooks' = Append(hooks, Hook("routeEq", SlashApi \o task.route, task.handler, 2, next))
        /\ regLog' = Append(regLog, RegCall("addHook", next, Undef))
  /\ Advance
  /\ UNCHANGED <<dir, previous, work, pluginTasks, collected, reqUrl, calls>>
  /\ UNCHANGED importing
  /\ UNCHANGED notLoaderVars

\* variant: the rule does not test the route, and so overlaps the rule before it
RegisterGlobalMiddlewareAnyRoute ==
  /\ Registering
  /\ LET task == pluginTasks[next]
     IN /\ task.isMiddleware
        /\ hooks' = Append(hooks, Hook("always", Undef, task.handler, 2, next))
        /\ regLog' = Append(regLog, RegCall("addHook", next, Undef))
  /\ Advance
  /\ UNCHANGED <<dir, previous, work, pluginTasks, collected, reqUrl, calls>>
  /\ UNCHANGED importing
  /\ UNCHANGED notLoaderVars

\* task.isMiddleware && !task.route
RegisterGlobalMiddleware ==
  /\ Registering
  /\ LET task == pluginTasks[next]
     IN /\ task.isMiddleware /\ ~Truthy(task.route)
        /\ hooks' = Append(hooks, Hook("always", Undef, task.handler, 2, next))
        /\ regLog' = Append(regLog, RegCall("addHook", next, Undef))
  /\ Advance
  /\ UNCHANGED <<dir, previous, work, pluginTasks, collected, reqUrl, calls>>
  /\ UNCHANGED importing
  /\ UNCHANGED notLoaderVars

\* variant: the prefix is looked at before the middleware flag
RegisterScopedPluginAnyTask ==
  /\ Registering
  /\ LET task == pluginTasks[next]
     IN /\ Truthy(task.prefix)
        /\ regLog' = Append(regLog, RegCall("register", next, FullPrefix(dir.path, task.prefix)))
        /\ hooks' = Append(hooks, PluginHook(task.handler, next))
  /\ Advance
  /\ UNCHANGED <<dir, previous, work, pluginTasks, collected, reqUrl, calls>>
  /\ UNCHANGED importing
  /\ UNCHANGED notLoaderVars

\* variant: a scoped plugin takes the place of the hooks already under its prefix
RegisterScopedPluginReplacing ==
  /\ Registering
  /\ LET task == pluginTasks[next]
     IN /\ ~task.isMiddleware /\ Truthy(task.prefix)
        /\ regLog' = Append(regLog, RegCall("register", next, FullPrefix(dir.path, task.prefix)))
        /\ hooks' = Append(SelectSeq(hooks, LAMBDA h : h.arg # task.prefix),
                           PluginHook(task.handler, next))
  /\ Advance
  /\ UNCHANGED <<dir, previous, work, pluginTasks, collected, reqUrl, calls>>
  /\ UNCHANGED importing
  /\ UNCHANGED notLoaderVars

\* task.prefix
RegisterScopedPlugin ==
  /\ Registering
  /\ LET task == pluginTasks[next]
     IN /\ ~task.isMiddleware /\ Truthy(task.prefix)
        /\ regLog' = Append(regLog, RegCall("register", next, FullPrefix(dir.path, task.prefix)))
        /\ hooks' = Append(hooks, PluginHook(task.handler, next))
  /\ Advance
  /\ UNCHANGED <<dir, previous, work, pluginTasks, collected, reqUrl, calls>>
  /\ UNCHANGED importing
  /\ UNCHANGED notLoaderVars

\* otherwise
RegisterGlobalPlugin ==
  /\ Registering
  /\ LET task == pluginTasks[next]
     IN /\ ~task.isMiddleware /\ ~Truthy(task.prefix)
        /\ regLog' = Append(regLog, RegCall("register", next, Undef))
        /\ hooks' = Append(hooks, PluginHook(task.handler, next))
  /\ Advance
  /\ UNCHANGED <<dir, previous, work, pluginTasks, collected, reqUrl, calls>>
  /\ UNCHANGED importing
  /\ UNCHANGED notLoaderVars

\* variant: the rejection is caught and logged, the loop goes on
RegisterRejectedSwallowed ==
  /\ Registering
  /\ LET task == pluginTasks[next]
     IN /\ ~task.isMiddleware
        /\ regLog' = Append(regLog, RegCall("rejected", next,
                        IF Truthy(task.prefix) THEN FullPrefix(dir.path, task.prefix) ELSE Undef))
  /\ Advance
  /\ UNCHANGED <<dir, previous, work, pluginTasks, collected, hooks, reqUrl, calls>>
  /\ UNCHANGED importing
  /\ UNCHANGED notLoaderVars

\* await app.register(...) of a plugin (scoped or global) rejects: nothing
\* catches it, registerPlugins rejects and the loop over the tasks ends
RegisterRejected ==
  /\ Registering
  /\ LET task == pluginTasks[next]
     IN /\ ~task.isMiddleware
        /\ regLog' = Append(regLog, RegCall("rejected", next,
                        IF Truthy(task.prefix) THEN FullPrefix(dir.path, task.prefix) ELSE Undef))
  /\ pc' = "failed"
  /\ UNCHANGED <<dir, previous, work, pluginTasks, collected, next, hooks, reqUrl, calls>>
  /\ UNCHANGED importing
  /\ UNCHANGED notLoaderVars

-----------------------------------------------------------------------------
(* A request: the server runs the preHandler hooks in the order they were added *)

\* variant: a route hook matches every URL that starts with its route
HookFiresOnPrefix(h, url) ==
  CASE h.test = "routeEq" -> StartsWith(url, h.arg)
    [] h.test = "startsWith" -> StartsWith(url, h.arg)
    [] OTHER -> TRUE

\* the condition under which the body of a hook calls the user's handler
HookFires(h, url) ==
  CASE h.test = "routeEq" -> StripTrailingSlash(url) = h.arg
    [] h.test = "startsWith" -> StartsWith(url, h.arg)
    [] OTHER -> TRUE

Invocation(h) == [fn |-> h.fn, nargs |-> h.nargs, task |-> h.task]

\* variant: the hooks run last added first
InvokedLastFirst(hs, url) ==
  LET firing == SelectSeq(hs, LAMBDA h : HookFires(h, url))
  IN [i \in 1..Len(firing) |-> Invocation(firing[Len(firing) + 1 - i])]

\* the handlers a request for url invokes, in order
Invoked(hs, url) ==
  LET firing == SelectSeq(hs, LAMBDA h : HookFires(h, url))
  IN [i \in 1..Len(firing) |-> Invocation(firing[i])]

Request ==
  /\ pc = "serve"
  /\ \E url \in Urls :
       /\ reqUrl' = url
       /\ calls' = Invoked(hooks, url)
  /\ UNCHANGED <<dir, previous, pc, work, pluginTasks, collected, next, regLog, hooks>>
  /\ UNCHANGED importing
  /\ UNCHANGED notLoaderVars

\* registerPlugins is not called: the state of these variables under the other
\* specifications
LoaderOff ==
  /\ dir = [path |-> <<"/", "p">>, exists |-> FALSE, entries |-> <<>>]
  /\ pc = "start"
  /\ work = <<>>
  /\ pluginTasks = <<>>
  /\ collected = <<>>
  /\ next = 1
  /\ regLog = <<>>
  /\ hooks = <<>>
  /\ reqUrl = Undef
  /\ calls = <<>>
  /\ importing = <<>>
  /\ previous = <<>>

-----------------------------------------------------------------------------
(* Hot reload of the plugins (packages/reload.ts): watchProject, the watcher *)
(* on the plugin directory and reloadPlugins.                               *)
(*                                                                         *)
(* Time is a clock in ms that moves in steps of at most TickStep. A timeout *)
(* runs at its due time: the clock does not move past an armed timeout, and *)
(* a timeout that is due runs before a watcher event of the same instant    *)
(* (the timers phase of the event loop precedes its poll phase). Each       *)
(* `await freshImport(full)` is one step, taken at any later moment, that   *)
(* reads the file as it is then. The plugin directory exists and is flat.   *)

\* setTimeout(..., 100)
Debounce == 100
\* the step of the clock, in ms
TickStep == 50
\* no timeout handle: `let pluginTimer` before the first event
NoTime == -1

\* the files the plugin directory may hold, in the order readdirSync lists them
FileOrder == <<N_l_ts, N_r_txt, N_t_js>>
PluginFiles == {FileOrder[i] : i \in 1..Len(FileOrder)}
\* a file is absent, exports a function ("fn"), or fails to import or exports none ("bad")
FileStates == {"absent", "fn", "bad"}

\* readdirSync(dir)
ReadDir == SelectSeq(FileOrder, LAMBDA f : disk[f] # "absent")
\* the entries of a listing the loop imports: `if (!/\.(ts|js)$/.test(item.name)) continue`
Importable(items) == SelectSeq(items, IsScript)

Pass(todo, loaded) == [todo |-> todo, loaded |-> loaded]
Completed(loaded, cache) == <<[loaded |-> loaded, cache |-> cache]>>

\* reloadPlugins() up to its first await: the listing is read, the first import is pending.
\* A pass with nothing to import completes at once.
BeginPass ==
  LET todo == Importable(ReadDir)
  IN  IF todo = <<>>
      THEN /\ lastDone' = Completed({}, pluginHandlers)
           /\ UNCHANGED passes
      ELSE /\ passes' = Append(passes, Pass(todo, {}))
           /\ UNCHANGED lastDone

\* watchProject: the initial load, not awaited, and the watcher on the plugin directory
WatchProject ==
  /\ ~watching
  /\ watching' = TRUE
  /\ BeginPass
  /\ UNCHANGED <<now, disk, timers, pluginTimer, pluginHandlers,
                 events, eventTimes, timerReloads>>
  /\ UNCHANGED notReloadVars

\* the callback armed by every event, without the clearTimeout
WatchEventNoClear(f, s) ==
  /\ watching
  /\ events < MaxEvents
  /\ \A t \in timers : now < t
  /\ disk' = [disk EXCEPT ![f] = s]
  /\ events' = events + 1
  /\ IF IsScript(f)
     THEN /\ timers' = timers \cup {now + Debounce}
          /\ pluginTimer' = now + Debounce
          /\ eventTimes' = Append(eventTimes, now)
     ELSE UNCHANGED <<timers, pluginTimer, eventTimes>>
  /\ UNCHANGED <<watching, now, passes, pluginHandlers, timerReloads, lastDone>>
  /\ UNCHANGED notReloadVars

\* A file of the plugin directory is written, created or deleted and the watcher
\* callback runs: for a .ts/.js file name, clearTimeout(pluginTimer) and
\* pluginTimer = setTimeout(..., 100).
WatchEvent(f, s) ==
  /\ watching
  /\ events < MaxEvents
  /\ \A t \in timers : now < t
  /\ disk' = [disk EXCEPT ![f] = s]
  /\ events' = events + 1
  /\ IF IsScript(f)
     THEN /\ timers' = (timers \ {pluginTimer}) \cup {now + Debounce}
          /\ pluginTimer' = now + Debounce
          /\ eventTimes' = Append(eventTimes, now)
     ELSE UNCHANGED <<timers, pluginTimer, eventTimes>>
  /\ UNCHANGED <<watching, now, passes, pluginHandlers, timerReloads, lastDone>>
  /\ UNCHANGED notReloadVars

\* the timeout runs: reloadPlugins()
TimerFires ==
  /\ \E t \in timers :
       /\ t <= now
       /\ timers' = timers \ {t}
  /\ timerReloads' = Append(timerReloads, now)
  /\ BeginPass
  /\ UNCHANGED <<watching, now, disk, pluginTimer, pluginHandlers, events, eventTimes>>
  /\ UNCHANGED notReloadVars

\* The pending `await freshImport(full)` of a pass settles: a module with a function
\* is cached under its path, a failure is logged; the loop goes on to the next file,
\* and the pass completes after the last one.
ImportResolves(i) ==
  /\ i \in 1..Len(passes)
  /\ LET p == passes[i]
         full == Head(p.todo)
         ok == disk[full] = "fn"
         loaded == IF ok THEN p.loaded \cup {full} ELSE p.loaded
         rest == Tail(p.todo)
     IN  /\ pluginHandlers' = IF ok THEN pluginHandlers \cup {full} ELSE pluginHandlers
         /\ IF rest = <<>>
            THEN /\ passes' = SubSeq(passes, 1, i - 1) \o SubSeq(passes, i + 1, Len(passes))
                 /\ lastDone' = Completed(loaded, pluginHandlers')
            ELSE /\ passes' = [passes EXCEPT ![i] = Pass(rest, loaded)]
                 /\ UNCHANGED lastDone
  /\ UNCHANGED <<watching, now, disk, timers, pluginTimer, events, eventTimes, timerReloads>>
  /\ UNCHANGED notReloadVars

\* the earliest of a set of times
Earliest(S) == CHOOSE t \in S : \A u \in S : t <= u

\* time passes: by one step, or up to the next armed timeout if that is sooner
Tick ==
  /\ watching
  /\ \A t \in timers : now < t
  /\ now' = Earliest({now + TickStep} \cup timers)
  /\ now' <= MaxTime
  /\ UNCHANGED <<watching, disk, timers, pluginTimer, passes, pluginHandlers,
                 events, eventTimes, timerReloads, lastDone>>
  /\ UNCHANGED notReloadVars

\* the reload is not running: the state of these variables under Spec
ReloadOff ==
  /\ watching = FALSE
  /\ now = 0
  /\ disk = [f \in PluginFiles |-> "absent"]
  /\ timers = {}
  /\ pluginTimer = NoTime
  /\ passes = <<>>
  /\ pluginHandlers = {}
  /\ events = 0
  /\ eventTimes = <<>>
  /\ timerReloads = <<>>
  /\ lastDone = <<>>


-----------------------------------------------------------------------------
(* Hot reload of the API handlers (packages/reload.ts): reloadApi.          *)
(* The walk runs synchronously from one `await freshImport(full)` to the    *)
(* next; each settled import is one step. A directory exists while it holds *)
(* a file.                                                                 *)

\* /\.(ts|js)$/ removed from the end of name
WithoutExt(name) == IF IsScript(name) THEN SubSeq(name, 1, Len(name) - 3) ELSE name

\* s.replace(/\[([^\]]+)\]/g, ":$1")
RECURSIVE ColonParams(_)
ColonParams(s) ==
  IF s = <<>> THEN <<>>
  ELSE IF Head(s) # "["
  THEN <<Head(s)>> \o ColonParams(Tail(s))
  ELSE LET close == IndexOf(Tail(s), <<"]">>)
       IN IF close > 1
          THEN <<":">> \o SubSeq(Tail(s), 1, close - 1)
                       \o ColonParams(SubSeq(Tail(s), close + 1, Len(s) - 1))
          ELSE <<"[">> \o ColonParams(Tail(s))

\* rawPath.replace(/\/+/g, "/")
RECURSIVE CollapseSlashes(_)
CollapseSlashes(s) ==
  IF Len(s) < 2 THEN s
  ELSE IF s[1] = "/" /\ s[2] = "/"
       THEN CollapseSlashes(Tail(s))
       ELSE <<Head(s)>> \o CollapseSlashes(Tail(s))

normalizeApiPath(rawPath) ==
  LET p == CollapseSlashes(rawPath)
      q == IF EndsWith(p, Slash) /\ p # Slash THEN SubSeq(p, 1, Len(p) - 1) ELSE p
  IN IF q = <<>> THEN Slash ELSE q

\* a file or a directory below api/: the names of the directories it lies in, and its own
ApiFile(dirs, name) == [kind |-> "file", dirs |-> dirs, name |-> name]
ApiDir(dirs, name) == [kind |-> "dir", dirs |-> dirs, name |-> name]

\* the prefix walk hands down: "/" + item.name for every directory entered
RECURSIVE WalkPrefix(_)
WalkPrefix(dirs) ==
  IF dirs = <<>> THEN <<>> ELSE Slash \o Head(dirs) \o WalkPrefix(Tail(dirs))

IndexDot == <<"i", "n", "d", "e", "x", ".">>

\* the API path reloadApi computes for a file
ApiPathOf(f) ==
  LET prefix == WalkPrefix(f.dirs)
      route == IF StartsWith(f.name, IndexDot)
               THEN prefix
               ELSE prefix \o Slash \o WithoutExt(f.name)
  IN normalizeApiPath(SlashApi \o ColonParams(route))

A_bi == ApiFile(<<>>, <<"[", "i", "]">> \o DotTs)
A_a == ApiFile(<<>>, <<"a">> \o DotTs)
A_txt == ApiFile(<<>>, N_r_txt)
A_u == ApiDir(<<>>, <<"u">>)
A_u_index == ApiFile(<< <<"u">> >>, IndexDot \o <<"j", "s">>)

\* the entries api/ and api/u/ may hold, in the order readdirSync lists them
ApiEntries(dirs) ==
  IF dirs = <<>> THEN <<A_bi, A_a, A_txt, A_u>> ELSE <<A_u_index>>

ApiFiles == {A_bi, A_a, A_txt, A_u_index}
ApiScripts == {f \in ApiFiles : IsScript(f.name)}
ApiPaths == {ApiPathOf(f) : f \in ApiScripts}

OnDisk(it) ==
  IF it.kind = "dir"
  THEN \E k \in 1..Len(ApiEntries(Append(it.dirs, it.name))) :
         apiDisk[ApiEntries(Append(it.dirs, it.name))[k]] # "absent"
  ELSE apiDisk[it] # "absent"

\* fs.readdirSync(dir) of walk
ApiReadDir(dirs) == SelectSeq(ApiEntries(dirs), OnDisk)

\* the walk up to its next import: directories are entered, other files than
\* .ts/.js skipped; what is left starts with the file to import
RECURSIVE UpToImport(_)
UpToImport(todo) ==
  IF todo = <<>> THEN <<>>
  ELSE IF Head(todo).kind = "dir"
  THEN UpToImport(ApiReadDir(Append(Head(todo).dirs, Head(todo).name)) \o Tail(todo))
  ELSE IF ~IsScript(Head(todo).name)
  THEN UpToImport(Tail(todo))
  ELSE todo

NoHandler == [kind |-> "none", file |-> <<>>]
FailedHandler == [kind |-> "failed", file |-> <<>>]
HandlerOf(f) == [kind |-> "fn", file |-> <<f>>]

\* variant: a failed import is logged and nothing is put in the Map
LoadedHandlerNoneOnFailure(f) ==
  IF apiDisk[f] = "fn" THEN HandlerOf(f) ELSE NoHandler

\* what the try / catch around the import puts in the Map: the exported
\* function, or the handler that answers 500 "Handler failed to load"
LoadedHandler(f) ==
  IF apiDisk[f] = "fn" THEN HandlerOf(f) ELSE FailedHandler

\* apiHandlers.delete(apiPath) for the file the walk is about to import
ClearNext(handlers, todo) ==
  IF todo = <<>> THEN handlers
  ELSE [handlers EXCEPT ![ApiPathOf(Head(todo))] = NoHandler]

ApiPass(todo, before) == [todo |-> todo, before |-> before]

\* reloadApi(app) up to its first await
ReloadApi ==
  /\ apiReloads < MaxApiReloads
  /\ apiReloads' = apiReloads + 1
  /\ LET todo == UpToImport(ApiReadDir(<<>>))
     IN /\ apiHandlers' = ClearNext(apiHandlers, todo)
        /\ apiPasses' = IF todo = <<>> THEN apiPasses
                        ELSE Append(apiPasses, ApiPass(todo, apiHandlers))
  /\ UNCHANGED <<apiDisk, apiEvents, lastSettle>>
  /\ UNCHANGED notApiVars

\* the pending import of a pass settles, the handler or the 500 handler is
\* set, and the walk goes on to its next import or to its end
ApiImportSettles(i) ==
  /\ i \in 1..Len(apiPasses)
  /\ LET pass == apiPasses[i]
         f == Head(pass.todo)
         after == [apiHandlers EXCEPT ![ApiPathOf(f)] = LoadedHandler(f)]
         rest == UpToImport(Tail(pass.todo))
     IN /\ apiHandlers' = ClearNext(after, rest)
        /\ apiPasses' =
             IF rest = <<>>
             THEN SubSeq(apiPasses, 1, i - 1) \o SubSeq(apiPasses, i + 1, Len(apiPasses))
             ELSE [apiPasses EXCEPT ![i] = ApiPass(rest, pass.before)]
        /\ lastSettle' = <<[file |-> f, ok |-> apiDisk[f] = "fn", todo |-> pass.todo,
                            before |-> apiHandlers, after |-> after, rest |-> rest]>>
  /\ UNCHANGED <<apiDisk, apiReloads, apiEvents>>
  /\ UNCHANGED notApiVars

\* a .ts/.js file under api/ is written, created or deleted
ApiFileChange(f, s) ==
  /\ apiEvents < MaxApiEvents
  /\ apiEvents' = apiEvents + 1
  /\ apiDisk' = [apiDisk EXCEPT ![f] = s]
  /\ UNCHANGED <<apiHandlers, apiPasses, apiReloads, lastSettle>>
  /\ UNCHANGED notApiVars

\* reloadApi is not running: the state of these variables under the other
\* specifications
ApiOff ==
  /\ apiDisk = [f \in ApiFiles |-> "absent"]
  /\ apiHandlers = [p \in ApiPaths |-> NoHandler]
  /\ apiPasses = <<>>
  /\ apiReloads = 0
  /\ apiEvents = 0
  /\ lastSettle = <<>>

-----------------------------------------------------------------------------
(* Client middleware (packages/client_middleware.ts): registerClientMiddleware *)
(* and the one preHandler hook it installs.                                   *)

DotCmDot == <<".", "c", "m", ".">>

\* /\.cm\.(ts|js)$/.test(name)
IsCmFile(name) ==
  EndsWith(name, <<".", "c", "m">> \o DotTs) \/ EndsWith(name, <<".", "c", "m">> \o DotJs)

\* [a-zA-Z0-9]
IsAlnum(c) == c \notin {"/", ".", "?", "=", "_", "-", "[", "]", ":"}

\* /\.[a-zA-Z0-9]+$/.test(url)
HasExtension(url) ==
  \E i \in 1..(Len(url) - 1) :
    url[i] = "." /\ \A j \in (i + 1)..Len(url) : IsAlnum(url[j])

N_a_cm_ts == <<"a">> \o DotCmDot \o <<"t", "s">>
N_B_cm_js == <<"B">> \o DotCmDot \o <<"j", "s">>
N_acmb_ts == <<"a">> \o DotCmDot \o <<"b">> \o DotTs

\* the files that may lie in the client middleware directory
CmPool ==
  { File(N_l_ts, Mod("fn", FALSE, 0)),
    File(N_a_cm_ts, Mod("fn", FALSE, 0)),
    File(N_B_cm_js, Mod("fn", TRUE, 1)),
    File(N_acmb_ts, Mod("fn", TRUE, 20)),
    File(N_t_js, Mod("throws", FALSE, 0)),
    File(N_n_ts, Mod("nofn", TRUE, 1)),
    File(N_r_txt, NoMod) }

U_root == Slash
U_a == <<"/", "a">>
U_a_slash == <<"/", "a", "/">>
U_b == <<"/", "b">>
U_B == <<"/", "B">>
U_a_js == <<"/", "a", ".", "j", "s">>
U_a_query == <<"/", "a", "?", "q", "=", "a">>
U_apix == SlashApi \o <<"x">>

\* the URLs of the requests the server receives
CmUrls == { U_root, U_a, U_a_slash, U_b, U_B, U_a_js, U_a_query, U_api_a, U_apix }

\* the task pushed for a module that exports a function
CmTaskOf(e) ==
  [handler |-> e.name,
   route |-> IF IsCmFile(e.name)
             THEN Slash \o ToLowerCase(SplitFirst(e.name, DotCmDot))
             ELSE Undef,
   fileName |-> e.name,
   order |-> OrderOf(e.mod)]

\* one iteration of the loop over the directory listing, its import awaited
CmScanEntry ==
  /\ cmPc = "scan"
  /\ cmWork # <<>>
  /\ LET e == Head(cmWork)
     IN /\ cmWork' = Tail(cmWork)
        /\ cmTasks' = IF IsScript(e.name) /\ e.mod.status = "fn"
                      THEN Append(cmTasks, CmTaskOf(e))
                      ELSE cmTasks
  /\ UNCHANGED <<cmPc, cmUrl, cmCalls>>
  /\ UNCHANGED notCmVars

\* tasks.sort((a, b) => a.order - b.order) and app.addHook("preHandler", ...)
CmRegister ==
  /\ cmPc = "scan"
  /\ cmWork = <<>>
  /\ cmTasks' = SortByOrder(cmTasks)
  /\ cmPc' = "serve"
  /\ UNCHANGED <<cmWork, cmUrl, cmCalls>>
  /\ UNCHANGED notCmVars

\* variant: the hook does not look for /api
CmInvokedApiToo(tasks, url) ==
  IF HasExtension(url) THEN <<>>
  ELSE SelectSeq([k \in 1..Len(tasks) |-> k],
                 LAMBDA k : ~Truthy(tasks[k].route)
                            \/ tasks[k].route = StripTrailingSlash(url))

\* the tasks whose handler the hook calls for a request, in order
CmInvoked(tasks, url) ==
  IF StartsWith(url, SlashApi) \/ HasExtension(url) THEN <<>>
  ELSE SelectSeq([k \in 1..Len(tasks) |-> k],
                 LAMBDA k : ~Truthy(tasks[k].route)
                            \/ tasks[k].route = StripTrailingSlash(url))

\* a request: the preHandler hook runs
CmRequest ==
  /\ cmPc = "serve"
  /\ \E url \in CmUrls :
       /\ cmUrl' = url
       /\ cmCalls' = CmInvoked(cmTasks, url)
  /\ UNCHANGED <<cmPc, cmWork, cmTasks>>
  /\ UNCHANGED notCmVars

\* registerClientMiddleware is not called: the state of these variables under
\* the other specifications
CmOff ==
  /\ cmPc = "scan"
  /\ cmWork = <<>>
  /\ cmTasks = <<>>
  /\ cmUrl = Undef
  /\ cmCalls = <<>>

-----------------------------------------------------------------------------
(* The store (createStore): set, update, delete, clear, watch and notify.   *)
(* A state object is a function from the keys to a value or "undefined";    *)
(* `value` and `prevValue` are references, so that an object changed in     *)
(* place changes for every reference to it. The store is not persisted.     *)

StoreKeys == {"count", "theme"}
StoreValues == {"x", "y"}
Undefined == "undefined"
Objects == [StoreKeys -> StoreValues \cup {Undefined}]
ObjectIds == {1, 2, 3}

\* the `initial` argument of createStore
InitialState == [k \in StoreKeys |-> IF k = "count" THEN "x" ELSE Undefined]

\* an identity no reference in keep holds
Fresh(keep) == CHOOSE i \in ObjectIds : i \notin keep /\ \A j \in ObjectIds \ keep : i <= j

\* the heap with the objects outside keep collected
Collect(h, keep) == [i \in ObjectIds |-> IF i \in keep THEN h[i] ELSE InitialState]

\* { ...a, ...patch }: patch is a function on some of the keys
Spread(a, patch) == [k \in StoreKeys |-> IF k \in DOMAIN patch THEN patch[k] ELSE a[k]]

\* the patches of update: an object with any of the keys
Patches == UNION {[ks -> StoreValues] : ks \in SUBSET StoreKeys}

\* notify: the callbacks made to the watchers, in order, for the heap h with
\* value v and prevValue p
Notify(h, v, p) ==
  LET changed == SelectSeq([i \in 1..Len(watchers) |-> i],
                           LAMBDA i : h[v][watchers[i]] # h[p][watchers[i]])
  IN [n \in 1..Len(changed) |->
        [watcher |-> changed[n],
         new |-> h[v][watchers[changed[n]]],
         old |-> h[p][watchers[changed[n]]]]]

Op(name, before, after) == [name |-> name, before |-> before, after |-> after]

\* watch(selector, callback)
Watch(key) ==
  /\ Len(watchers) < MaxWatchers
  /\ watchers' = Append(watchers, key)
  /\ lastOp' = <<>>
  /\ notified' = <<>>
  /\ UNCHANGED <<heap, value, prevValue>>
  /\ UNCHANGED notStoreVars

\* set(next): prevValue = value; value = { ...next }; notify
Set(nextState) ==
  /\ LET new == Fresh({value})
         h == [Collect(heap, {value}) EXCEPT ![new] = nextState]
     IN /\ prevValue' = value
        /\ value' = new
        /\ heap' = h
        /\ notified' = Notify(h, new, value)
        /\ lastOp' = <<Op("set", heap[value], h[new])>>
  /\ UNCHANGED watchers
  /\ UNCHANGED notStoreVars

\* update(partial): prevValue = value; value = { ...value, ...patch }; notify
Update(patch) ==
  /\ LET new == Fresh({value})
         h == [Collect(heap, {value}) EXCEPT ![new] = Spread(heap[value], patch)]
     IN /\ prevValue' = value
        /\ value' = new
        /\ heap' = h
        /\ notified' = Notify(h, new, value)
        /\ lastOp' = <<Op("update", heap[value], h[new])>>
  /\ UNCHANGED watchers
  /\ UNCHANGED notStoreVars

\* delete(keys): prevValue = value; the keys are deleted from the object
\* `value` refers to; notify
DeleteKeys(keys) ==
  /\ LET h == [Collect(heap, {value}) EXCEPT
                 ![value] = [k \in StoreKeys |-> IF k \in keys THEN Undefined ELSE heap[value][k]]]
     IN /\ prevValue' = value
        /\ UNCHANGED value
        /\ heap' = h
        /\ notified' = Notify(h, value, value)
        /\ lastOp' = <<Op("delete", heap[value], h[value])>>
  /\ UNCHANGED watchers
  /\ UNCHANGED notStoreVars

\* clear(): prevValue = { ...value }; value = { ...initial }; notify
Clear ==
  /\ LET old == Fresh({})
         new == Fresh({old})
         h == [i \in ObjectIds |-> IF i = old THEN heap[value] ELSE InitialState]
     IN /\ prevValue' = old
        /\ value' = new
        /\ heap' = h
        /\ notified' = Notify(h, new, old)
        /\ lastOp' = <<Op("clear", heap[value], h[new])>>
  /\ UNCHANGED watchers
  /\ UNCHANGED notStoreVars

\* createStore(initial): value = { ...initial }, prevValue = { ...value }
StoreCreated ==
  /\ heap = [i \in ObjectIds |-> InitialState]
  /\ value = 1
  /\ prevValue = 2
  /\ watchers = <<>>
  /\ lastOp = <<>>
  /\ notified = <<>>

-----------------------------------------------------------------------------
(* The client router (src/userouter.ts): RouterStore over the History API.  *)
(* window.dispatchEvent runs the popstate listener before it returns, so a  *)
(* navigation and the handlePopState it dispatches are one step. The        *)
(* traversal that history.back() asks for is done by the browser in a later *)
(* step, which fires popstate. URLs have no hash.                           *)

RouterUrls == { U_a, U_a_query }

EventTypes == {"start", "change", "complete"}

\* a BeforePopCallback, by what it returns: nothing for every URL, or false
\* for "/a" and nothing for the others
Guards == {"void", "falseOnA"}

\* cb(url) === false
ReturnsFalse(cb, url) == cb = "falseOnA" /\ url = U_a

QuestionMark == <<"?">>

\* window.location.pathname, and url.split("?")[0]
Pathname(url) == SplitFirst(url, QuestionMark)

\* the query string both new URLSearchParams(window.location.search) and
\* new URLSearchParams(url.split("?")[1]) read: the text after the "?"
QueryOf(url) ==
  IF IndexOf(url, QuestionMark) = 0 THEN <<>>
  ELSE SubSeq(url, IndexOf(url, QuestionMark) + 1, Len(url))

\* window.location.pathname + window.location.search
Location == histEntries[histIndex]

\* emit(type, p): one call per listener of the type
Emit(type, p) == [i \in 1..listeners[type] |-> [type |-> type, path |-> p]]

\* the fields of the RouterStore a navigation writes, and the calls made so far
RouterNow == [path |-> path, queries |-> queries, loading |-> loading, emitted |-> <<>>]

\* syncWithLocation(announce), with window.location at loc
SyncWithLocation(r, loc, announce) ==
  [path |-> Pathname(loc), queries |-> QueryOf(loc), loading |-> FALSE,
   emitted |-> r.emitted \o
               (IF announce
                THEN Emit("change", Pathname(loc)) \o Emit("complete", Pathname(loc))
                ELSE <<>>)]

\* handlePopState, with window.location at loc
HandlePopState(r, loc) ==
  IF \E i \in 1..Len(beforePop) : ReturnsFalse(beforePop[i], loc)
  THEN r
  ELSE SyncWithLocation(r, loc, TRUE)

Store(r) ==
  /\ path' = r.path
  /\ queries' = r.queries
  /\ loading' = r.loading
  /\ emitted' = r.emitted

RouterOp(op, announce, shallow) == [op |-> op, announce |-> announce, shallow |-> shallow]

\* no navigation was made since the router was created or a callback was
\* registered or removed
NoNavigation == RouterOp("none", TRUE, FALSE)

\* the callbacks registered on the router
Callbacks ==
  listeners["start"] + listeners["change"] + listeners["complete"] + Len(beforePop)

\* on(type, cb)
On(type) ==
  /\ Callbacks < MaxCallbacks
  /\ listeners' = [listeners EXCEPT ![type] = @ + 1]
  /\ routerOp' = NoNavigation
  /\ emitted' = <<>>
  /\ UNCHANGED <<path, queries, loading, beforePop, histEntries, histIndex, traversals>>
  /\ UNCHANGED notRouterVars

\* the function on(type, cb) returned
Off(type) ==
  /\ listeners[type] > 0
  /\ listeners' = [listeners EXCEPT ![type] = @ - 1]
  /\ routerOp' = NoNavigation
  /\ emitted' = <<>>
  /\ UNCHANGED <<path, queries, loading, beforePop, histEntries, histIndex, traversals>>
  /\ UNCHANGED notRouterVars

\* beforePopState(cb)
BeforePopState(cb) ==
  /\ Callbacks < MaxCallbacks
  /\ beforePop' = Append(beforePop, cb)
  /\ routerOp' = NoNavigation
  /\ emitted' = <<>>
  /\ UNCHANGED <<path, queries, loading, listeners, histEntries, histIndex, traversals>>
  /\ UNCHANGED notRouterVars

\* the function beforePopState(cb) returned, for the i-th guard
RemoveGuard(i) ==
  /\ i \in 1..Len(beforePop)
  /\ beforePop' = SubSeq(beforePop, 1, i - 1) \o SubSeq(beforePop, i + 1, Len(beforePop))
  /\ routerOp' = NoNavigation
  /\ emitted' = <<>>
  /\ UNCHANGED <<path, queries, loading, listeners, histEntries, histIndex, traversals>>
  /\ UNCHANGED notRouterVars

\* navigate(url, method, announce, shallow), the popstate it dispatches included
Navigate(url, method, announce, shallow) ==
  LET started == [path |-> Pathname(url), queries |-> QueryOf(url), loading |-> TRUE,
                  emitted |-> IF announce THEN Emit("start", url) ELSE <<>>]
      synced == IF shallow THEN started ELSE SyncWithLocation(started, url, announce)
  IN /\ IF method = "push"
        THEN /\ histIndex < MaxHistory
             /\ histEntries' = Append(SubSeq(histEntries, 1, histIndex), url)
             /\ histIndex' = histIndex + 1
        ELSE /\ histEntries' = [histEntries EXCEPT ![histIndex] = url]
             /\ histIndex' = histIndex
     /\ Store(HandlePopState(synced, url))
     /\ routerOp' = RouterOp(method, announce, shallow)
     /\ UNCHANGED <<listeners, beforePop, traversals>>
     /\ UNCHANGED notRouterVars

\* push(url, announce, shallow), without a queries argument
Push(url, announce, shallow) == Navigate(url, "push", announce, shallow)

\* replace(url, announce, shallow), without a queries argument
Replace(url, announce, shallow) == Navigate(url, "replace", announce, shallow)

\* back(announce), the popstate it dispatches included
Back(announce) ==
  LET started == [path |-> path, queries |-> queries, loading |-> TRUE,
                  emitted |-> IF announce THEN Emit("start", path) ELSE <<>>]
  IN /\ traversals < MaxTraversals
     /\ traversals' = traversals + 1
     /\ Store(HandlePopState(started, Location))
     /\ routerOp' = RouterOp("back", announce, FALSE)
     /\ UNCHANGED <<listeners, beforePop, histEntries, histIndex>>
     /\ UNCHANGED notRouterVars

\* the browser does a traversal history.back() asked for: with an entry to go
\* back to it moves there and fires popstate, without one it does nothing
PopState ==
  /\ traversals > 0
  /\ traversals' = traversals - 1
  /\ IF histIndex > 1
     THEN /\ histIndex' = histIndex - 1
          /\ Store(HandlePopState(RouterNow, histEntries[histIndex - 1]))
     ELSE /\ histIndex' = histIndex
          /\ Store(RouterNow)
  /\ routerOp' = RouterOp("popstate", TRUE, FALSE)
  /\ UNCHANGED <<listeners, beforePop, histEntries>>
  /\ UNCHANGED notRouterVars

\* the router as its constructor leaves it, the page opened at "/"
RouterCreated ==
  /\ path = U_root
  /\ queries = <<>>
  /\ loading = FALSE
  /\ listeners = [t \in EventTypes |-> 0]
  /\ beforePop = <<>>
  /\ histEntries = <<U_root>>
  /\ histIndex = 1
  /\ traversals = 0
  /\ routerOp = NoNavigation
  /\ emitted = <<>>

-----------------------------------------------------------------------------
(* Specification *)

Init ==
  /\ dir \in {[path |-> p, exists |-> TRUE, entries |-> l] : p \in RootDirs, l \in RootListings}
             \cup {[path |-> <<"/", "p">>, exists |-> FALSE, entries |-> <<>>]}
  /\ pc = "start"
  /\ work = <<>>
  /\ pluginTasks = <<>>
  /\ collected = <<>>
  /\ next = 1
  /\ regLog = <<>>
  /\ hooks = <<>>
  /\ reqUrl = Undef
  /\ calls = <<>>
  /\ importing = <<>>
  /\ previous = <<>>
  /\ ReloadOff
  /\ ApiOff
  /\ CmOff
  /\ StoreCreated
  /\ RouterCreated

Next ==
  \/ Start
  \/ ScanRootEntry
  \/ ScanDirEntry
  \/ ImportSettles
  \/ SortTasks
  \/ RegisterRouteMiddleware
  \/ RegisterGlobalMiddleware
  \/ RegisterScopedPlugin
  \/ RegisterGlobalPlugin
  \/ RegisterRejected
  \/ Request

Spec == Init /\ [][Next]_vars

\* what a task list says of each task, position by position
Summary(tasks) ==
  [k \in 1..Len(tasks) |->
     [file |-> tasks[k].handler.fn, isMiddleware |-> tasks[k].isMiddleware,
      route |-> tasks[k].route, prefix |-> tasks[k].prefix, order |-> tasks[k].order]]

\* registerPlugins is called once more on the same directory tree: the scan and
\* the sort start over with an empty `pluginTasks`
ScanAgain ==
  /\ pc \in {"register", "serve", "done"}
  /\ regLog = <<>>
  /\ previous = <<>>
  /\ previous' = <<[sorted |-> Summary(pluginTasks), collected |-> Summary(collected)]>>
  /\ pc' = "start"
  /\ work' = <<>>
  /\ pluginTasks' = <<>>
  /\ collected' = <<>>
  /\ next' = 1
  /\ UNCHANGED <<dir, regLog, hooks, reqUrl, calls, importing>>
  /\ UNCHANGED notLoaderVars

\* two scans of one directory tree
NextTwice ==
  \/ Start
  \/ ScanRootEntry
  \/ ScanDirEntry
  \/ ImportSettles
  \/ SortTasks
  \/ ScanAgain

SpecTwice == Init /\ [][NextTwice]_vars

\* the server process starts: the module is loaded and the plugin directory holds any files
InitReload ==
  /\ LoaderOff
  /\ ApiOff
  /\ CmOff
  /\ StoreCreated
  /\ RouterCreated
  /\ watching = FALSE
  /\ now = 0
  /\ disk \in [PluginFiles -> FileStates]
  /\ timers = {}
  /\ pluginTimer = NoTime
  /\ passes = <<>>
  /\ pluginHandlers = {}
  /\ events = 0
  /\ eventTimes = <<>>
  /\ timerReloads = <<>>
  /\ lastDone = <<>>

NextReload ==
  \/ WatchProject
  \/ \E f \in PluginFiles, s \in FileStates : WatchEvent(f, s)
  \/ TimerFires
  \/ \E i \in 1..Len(passes) : ImportResolves(i)
  \/ Tick

SpecReload == InitReload /\ [][NextReload]_vars

\* the server process starts: the Map is empty and the api directory holds any files
InitApi ==
  /\ LoaderOff
  /\ ReloadOff
  /\ CmOff
  /\ StoreCreated
  /\ RouterCreated
  /\ apiDisk \in {d \in [ApiFiles -> FileStates] : d[A_txt] = "bad"}
  /\ apiHandlers = [p \in ApiPaths |-> NoHandler]
  /\ apiPasses = <<>>
  /\ apiReloads = 0
  /\ apiEvents = 0
  /\ lastSettle = <<>>

NextApi ==
  \/ ReloadApi
  \/ \E i \in 1..Len(apiPasses) : ApiImportSettles(i)
  \/ \E f \in ApiScripts, s \in FileStates : ApiFileChange(f, s)

SpecApi == InitApi /\ [][NextApi]_vars

\* registerClientMiddleware(app, dir) is called on a directory with any listing
InitCm ==
  /\ LoaderOff
  /\ ReloadOff
  /\ ApiOff
  /\ StoreCreated
  /\ RouterCreated
  /\ cmPc = "scan"
  /\ cmWork \in Listings(CmPool, MaxCmEntries)
  /\ cmTasks = <<>>
  /\ cmUrl = Undef
  /\ cmCalls = <<>>

NextCm ==
  \/ CmScanEntry
  \/ CmRegister
  \/ CmRequest

SpecCm == InitCm /\ [][NextCm]_vars

\* a store is created and used
InitStore ==
  /\ LoaderOff
  /\ ReloadOff
  /\ ApiOff
  /\ CmOff
  /\ heap = [i \in ObjectIds |-> InitialState]
  /\ value = 1
  /\ prevValue = 2
  /\ watchers = <<>>
  /\ lastOp = <<>>
  /\ notified = <<>>
  /\ RouterCreated

NextStore ==
  \/ \E key \in StoreKeys : Watch(key)
  \/ \E nextState \in Objects : Set(nextState)
  \/ \E patch \in Patches : Update(patch)
  \/ \E keys \in SUBSET StoreKeys : DeleteKeys(keys)
  \/ Clear

SpecStore == InitStore /\ [][NextStore]_vars

InitRouter ==
  /\ LoaderOff
  /\ ReloadOff
  /\ ApiOff
  /\ CmOff
  /\ StoreCreated
  /\ RouterCreated

NextRouter ==
  \/ \E type \in EventTypes : On(type)
  \/ \E type \in EventTypes : Off(type)
  \/ \E cb \in Guards : BeforePopState(cb)
  \/ \E i \in 1..MaxCallbacks : RemoveGuard(i)
  \/ \E url \in RouterUrls, announce \in BOOLEAN, shallow \in BOOLEAN :
       Push(url, announce, shallow)
  \/ \E url \in RouterUrls, announce \in BOOLEAN, shallow \in BOOLEAN :
       Replace(url, announce, shallow)
  \/ \E announce \in BOOLEAN : Back(announce)
  \/ PopState

SpecRouter == InitRouter /\ [][NextRouter]_vars

\* the browser does every traversal it was asked for; the page's own calls
\* are under no obligation
SpecRouterFair == SpecRouter /\ WF_vars(PopState)

-----------------------------------------------------------------------------
(* Vocabulary of the properties *)

\* the registration is over and a request has been served
Served == pc = "serve" /\ reqUrl # Undef

\* the task was collected from a file under middleware/
FromMiddlewareDir(t) == Len(t.handler.fn) > 1 /\ t.handler.fn[1] = Middleware

\* the task at position k of the registration sequence
Registered(k) == pluginTasks[regLog[k].task]

\* the position at which the scan discovered task t
DiscoveryIndex(t) == CHOOSE k \in 1..Len(collected) : collected[k] = t

\* the task whose handler the i-th invocation of the last request ran
CalledTask(i) == pluginTasks[calls[i].task]

\* the handler of the task at position k was invoked by the last request
WasInvoked(k) == \E i \in 1..Len(calls) : calls[i].task = k

\* prefix followed by one path segment per enclosing directory, lower-cased
RECURSIVE DirPrefix(_)
DirPrefix(dirs) ==
  IF dirs = <<>> THEN SlashApi
  ELSE DirPrefix(SubSeq(dirs, 1, Len(dirs) - 1)) \o Slash \o ToLowerCase(dirs[Len(dirs)])

\* the directories that enclose the file of task t, outermost first
DirsOf(t) == SubSeq(t.handler.fn, 1, Len(t.handler.fn) - 1)

\* the <name> of a file <name>.md.<ext> or <name>.pg.<ext> (ext is ts or js)
NameOf(fileName) == SubSeq(fileName, 1, Len(fileName) - 6)

\* the task at position a of the task list was registered before the one at b
WasRegisteredBefore(a, b) ==
  \E i, j \in 1..Len(regLog) : i < j /\ regLog[i].task = a /\ regLog[j].task = b

\* the listing holds exactly middleware/l.ts (no order export), c.ts (order 1)
\* and U/i.ts (no order export)
ScenarioListing(entries) ==
  /\ Len(entries) = 3
  /\ {entries[k] : k \in 1..3} =
       { Dir(Middleware, <<File(N_l_ts, Mod("fn", FALSE, 0))>>),
         File(N_c_ts, WithArity(Mod("fn", TRUE, 1), 1)),
         Dir(<<"U">>, <<File(N_i_ts, Mod("fn", FALSE, 0))>>) }

-----------------------------------------------------------------------------
(* C1 *)

\* C1: the tasks are registered in ascending `order`, tasks of equal `order`
\* in the order in which the scan discovered them, and when the registration
\* is over every collected task has been registered exactly once.
C1_RegisteredInStableOrder ==
  /\ \A i, j \in 1..Len(regLog) :
       i < j =>
         /\ Registered(i).order <= Registered(j).order
         /\ Registered(i).order = Registered(j).order
              => DiscoveryIndex(Registered(i)) < DiscoveryIndex(Registered(j))
  /\ pc = "serve" =>
       /\ Len(regLog) = Len(collected)
       /\ {Registered(k) : k \in 1..Len(regLog)} = {collected[k] : k \in 1..Len(collected)}

\* registration is over; the scan found a task of higher order before one of
\* lower order, and two tasks of equal order
C1_Witness ==
  /\ pc = "serve"
  /\ \E i, j \in 1..Len(collected) : i < j /\ collected[i].order > collected[j].order
  /\ \E i, j \in 1..Len(collected) : i < j /\ collected[i].order = collected[j].order

(* C2 *)

\* C2: on every request, of two tasks whose handlers both run, the one with
\* the lower `order` runs first.
C2_LowerOrderRunsFirst ==
  Served =>
    \A i, j \in 1..Len(calls) :
      CalledTask(i).order < CalledTask(j).order => i < j

\* a request ran the handlers of an order-1 and an order-20 task that the
\* scan had discovered the other way round
C2_Witness ==
  /\ Served
  /\ \E i, j \in 1..Len(calls) :
       /\ CalledTask(i).order = 1
       /\ CalledTask(j).order = 20
       /\ DiscoveryIndex(CalledTask(j)) < DiscoveryIndex(CalledTask(i))

(* C3 *)

C4_MiddlewareFirstAmongEqualOrder ==
  /\ \A i, j \in 1..Len(regLog) :
       /\ FromMiddlewareDir(Registered(j))
       /\ ~FromMiddlewareDir(Registered(i))
       /\ Registered(i).order = Registered(j).order
       => j < i
  /\ pc = "serve" =>
       \A i, j \in 1..Len(pluginTasks) :
         /\ FromMiddlewareDir(pluginTasks[j])
         /\ ~FromMiddlewareDir(pluginTasks[i])
         /\ pluginTasks[i].order = pluginTasks[j].order
         => WasRegisteredBefore(j, i)
  /\ (pc = "serve" /\ ScenarioListing(dir.entries))
       => [k \in 1..Len(regLog) |-> Registered(k).handler.fn]
            = << <<N_c_ts>>, <<Middleware, N_l_ts>>, <<<<"U">>, N_i_ts>> >>

\* the scenario's directory was loaded: the root lists U/ before c.ts
C4_Witness ==
  /\ pc = "serve"
  /\ ScenarioListing(dir.entries)
  /\ dir.entries[1].kind = "dir"

(* C5 *)

C6_ScopedPluginOnlyUnderPrefix ==
  Served =>
    \A k \in 1..Len(pluginTasks) :
      LET t == pluginTasks[k]
      IN (~t.isMiddleware /\ Truthy(t.prefix) /\ WasInvoked(k))
           => (reqUrl = t.prefix \/ StartsWith(reqUrl, t.prefix \o Slash))

(* C7 *)

\* C7 as stated: every task collected from middleware/ has isMiddleware =
\* true and no prefix, whatever the name of its file.
C7_MiddlewareDirTasksHaveNoPrefix ==
  \A k \in 1..Len(pluginTasks) :
    FromMiddlewareDir(pluginTasks[k])
      => (pluginTasks[k].isMiddleware /\ pluginTasks[k].prefix = Undef)

(* C8 *)

\* C8 as stated: after registerPlugins, the handler of every task collected
\* from middleware/ runs on every request.
C8_MiddlewareDirHandlersRunOnEveryRequest ==
  Served =>
    \A k \in 1..Len(pluginTasks) :
      FromMiddlewareDir(pluginTasks[k]) => WasInvoked(k)

(* C9 *)

\* C9: the task of a file <name>.pg.<ext> that lies in a directory below the
\* root (outside middleware/) has the prefix derived from its directories,
\* never the one derived from <name>.
C9_DirectoryPrefixWins ==
  \A k \in 1..Len(pluginTasks) :
    LET t == pluginTasks[k]
    IN (IsPgFile(t.fileName) /\ DirsOf(t) # <<>> /\ ~FromMiddlewareDir(t))
         => /\ t.prefix = DirPrefix(DirsOf(t))
            /\ t.prefix # SlashApi \o Slash \o ToLowerCase(NameOf(t.fileName))

\* the scan collected V/a.pg.ts
C9_Witness ==
  \E k \in 1..Len(pluginTasks) :
    /\ pluginTasks[k].handler.fn = << <<"V">>, N_a_pg_ts >>
    /\ pluginTasks[k].prefix = SlashApi \o <<"/", "v">>

(* C10 *)

\* the task of a file that lies directly in the plugin root
AtRoot(t) == Len(t.handler.fn) = 1

\* the first ".md." of the file name is the one before its extension
SingleMd(fileName) == IndexOf(fileName, DotMdDot) = Len(fileName) - 5

-----------------------------------------------------------------------------
(* Vocabulary of the properties of the scan and the registration *)

\* the scan is over
Scanned == pc \in {"register", "serve", "failed"}

\* the entry that the listing entries holds at the path names
RECURSIVE EntryAt(_, _)
EntryAt(entries, names) ==
  LET e == entries[CHOOSE i \in 1..Len(entries) : entries[i].name = Head(names)]
  IN IF Len(names) = 1 THEN e ELSE EntryAt(e.entries, Tail(names))

\* the paths of the .ts/.js files below entries whose import yields a function
RECURSIVE LoadablePaths(_, _)
LoadablePaths(entries, parent) ==
  UNION { IF entries[i].kind = "dir"
          THEN LoadablePaths(entries[i].entries, Append(parent, entries[i].name))
          ELSE IF IsScript(entries[i].name) /\ entries[i].mod.status = "fn"
               THEN {Append(parent, entries[i].name)}
               ELSE {}
          : i \in 1..Len(entries) }

\* the hooks installed for the task at position k
HooksOf(k) == SelectSeq(hooks, LAMBDA h : h.task = k)

\* the request URL lies under prefix
Under(url, prefix) == url = prefix \/ StartsWith(url, prefix \o Slash)

(* C11 *)

\* C11: a task with isMiddleware = true is never handed to app.register,
\* with or without a prefix; it is installed by addHook only, and its hook
\* calls the handler always or on a comparison of the request URL.
C11_MiddlewareNeverScoped ==
  \A i \in 1..Len(regLog) :
    Registered(i).isMiddleware =>
      /\ regLog[i].call = "addHook"
      /\ regLog[i].prefix = Undef
      /\ Len(HooksOf(regLog[i].task)) = 1
      /\ HooksOf(regLog[i].task)[1].test =
           (IF Truthy(Registered(i).route) THEN "routeEq" ELSE "always")

\* a middleware task that carries a prefix (middleware/a.pg.ts) was registered
C11_Witness ==
  \E i \in 1..Len(regLog) :
    /\ Registered(i).isMiddleware
    /\ Truthy(Registered(i).prefix)
    /\ regLog[i].call = "addHook"

(* C12 *)

\* C12 as stated, its request-time half: the handler of a non-middleware
\* task with one declared parameter is a setup-style plugin, run at
\* registration with the server and therefore never by a request.
C12_SetupPluginNotRunPerRequest ==
  Served =>
    \A k \in 1..Len(pluginTasks) :
      (~pluginTasks[k].isMiddleware /\ pluginTasks[k].handler.arity = 1) => ~WasInvoked(k)

(* C13 *)

\* C13: when the scan is over, the tasks are exactly the .ts/.js files of
\* the tree whose import yields a function, one task each; a module that
\* throws or exports no function has no task and stops nothing, and the
\* only failure of registerPlugins is a rejected registration after the scan.
C13_FailedModulesSkipped ==
  /\ Scanned =>
       /\ {collected[k].handler.fn : k \in 1..Len(collected)} = LoadablePaths(dir.entries, <<>>)
       /\ Len(collected) = Cardinality(LoadablePaths(dir.entries, <<>>))
  /\ pc = "failed" => (work = <<>> /\ regLog # <<>> /\ regLog[Len(regLog)].call = "rejected")

\* the root lists t.js (import throws) before V/, where n.ts (no function)
\* comes before a.pg.ts; the scan is over and has collected V/a.pg.ts
C13_Witness ==
  /\ Scanned
  /\ Len(dir.entries) >= 2
  /\ dir.entries[1].name = N_t_js
  /\ dir.entries[2].name = <<"V">>
  /\ \E k \in 1..Len(collected) : collected[k].handler.fn = << <<"V">>, N_a_pg_ts >>

(* C14 *)

\* C14: when the server rejects the registration of a task, registerPlugins
\* has failed, the rejected call is the last call it made on the server, and
\* no hook of that task or of a later task has been installed.
C14_RejectionAbortsRegistration ==
  \A i \in 1..Len(regLog) :
    regLog[i].call = "rejected" =>
      /\ pc = "failed"
      /\ i = Len(regLog)
      /\ \A h \in 1..Len(hooks) : hooks[h].task < regLog[i].task

\* the server rejected a task after another had been registered and with a
\* task still to come
C14_Witness ==
  /\ pc = "failed"
  /\ Len(regLog) > 1
  /\ Len(regLog) < Len(pluginTasks)

(* C18 *)

\* C18 as stated: a request calls every middleware handler (global or
\* route-scoped) with three arguments: request, reply and app.
C18_MiddlewareCalledWithApp ==
  Served =>
    \A i \in 1..Len(calls) : CalledTask(i).isMiddleware => calls[i].nargs = 3

(* C19 *)

\* C19: the order of a task is the `order` export of its module when that
\* export is a number, and 10 when it is missing or not a number.
C19_OrderIsNumericExportOrTen ==
  \A k \in 1..Len(pluginTasks) :
    LET m == EntryAt(dir.entries, pluginTasks[k].handler.fn).mod
    IN /\ m.orderType = "number" => pluginTasks[k].order = m.order
       /\ m.orderType # "number" => pluginTasks[k].order = 10

\* tasks were collected from a module with order = 20, from one with the
\* string order "1" and from one without an order export
C19_Witness ==
  /\ \E k \in 1..Len(pluginTasks) :
       /\ pluginTasks[k].handler.fn = <<N_a_pg_ts>>
       /\ EntryAt(dir.entries, <<N_a_pg_ts>>).mod.orderType = "string"
       /\ pluginTasks[k].order = 10
  /\ \E k \in 1..Len(pluginTasks) :
       /\ pluginTasks[k].handler.fn = <<N_B_md_js>>
       /\ pluginTasks[k].order = 20

(* C20 *)

\* C20: when the registration is over, two plugins scoped to the same prefix
\* have both been registered with that prefix and each has its hook; a
\* request under the prefix runs both handlers, in registration order.
C20_SamePrefixTasksStack ==
  \A j, k \in 1..Len(pluginTasks) :
    LET a == pluginTasks[j]
        b == pluginTasks[k]
    IN (pc = "serve" /\ j < k /\ ~a.isMiddleware /\ ~b.isMiddleware
          /\ Truthy(a.prefix) /\ a.prefix = b.prefix)
         => /\ \E x, y \in 1..Len(regLog) :
                 /\ x < y
                 /\ regLog[x].task = j /\ regLog[x].call = "register"
                 /\ regLog[y].task = k /\ regLog[y].call = "register"
                 /\ regLog[x].prefix = regLog[y].prefix
            /\ Len(HooksOf(j)) = 1 /\ Len(HooksOf(k)) = 1
            /\ (Served /\ Under(reqUrl, a.prefix))
                 => \E x, y \in 1..Len(calls) :
                      x < y /\ calls[x].task = j /\ calls[y].task = k

\* V/U/c.ts and V/U/i.ts, both scoped to /api/v/u, ran on a request for
\* /api/v/u
C20_Witness ==
  /\ Served
  /\ reqUrl = U_api_v_u
  /\ \E x, y \in 1..Len(calls) :
       /\ x < y
       /\ CalledTask(x).handler.fn = << <<"V">>, <<"U">>, N_c_ts >>
       /\ CalledTask(y).handler.fn = << <<"V">>, <<"U">>, N_i_ts >>
       /\ CalledTask(x).prefix = CalledTask(y).prefix


-----------------------------------------------------------------------------
(* Vocabulary of the reload properties *)

\* the events that end a burst: no later event follows within the debounce window
BurstEnds ==
  {i \in 1..Len(eventTimes) :
     i = Len(eventTimes) \/ eventTimes[i + 1] - eventTimes[i] >= Debounce}

\* the number of bursts: the events that do not follow another within the window
Bursts ==
  Cardinality({i \in 1..Len(eventTimes) :
                 i = 1 \/ eventTimes[i] - eventTimes[i - 1] >= Debounce})

\* the times at which the timeout started a reload
ReloadStarts == {timerReloads[i] : i \in 1..Len(timerReloads)}

-----------------------------------------------------------------------------
(* C15 *)

\* C15: two reload passes never overlap: no reloadPlugins call starts while an
\* earlier one, the initial load of watchProject included, is still in progress.
C15_ReloadsNeverOverlap == Len(passes) <= 1

-----------------------------------------------------------------------------
(* C16 *)

\* C16: when a reload pass completes, the handler cache holds exactly the files
\* that the pass loaded: nothing from an earlier pass survives.
C16_CacheReplacedByEachPass ==
  lastDone # <<>> => lastDone[1].cache = lastDone[1].loaded

-----------------------------------------------------------------------------
(* C17 *)

\* C17: every burst of events on .ts/.js files (each less than 100 ms after the
\* previous one) triggers exactly one reload, started 100 ms after the last
\* event of the burst: the reloads started and the timeouts still armed are,
\* one for one, the burst ends plus 100 ms.
C17_OneReloadPerBurst ==
  /\ ReloadStarts \cup timers = {eventTimes[i] + Debounce : i \in BurstEnds}
  /\ ReloadStarts \cap timers = {}
  /\ Cardinality(ReloadStarts) = Len(timerReloads)
  /\ Len(timerReloads) + Cardinality(timers) = Bursts

\* a burst of two events 50 ms apart has been answered by its one reload
C17_Witness ==
  /\ Len(eventTimes) = 2
  /\ eventTimes[2] - eventTimes[1] = TickStep
  /\ timerReloads = <<eventTimes[2] + Debounce>>
  /\ timers = {}

-----------------------------------------------------------------------------
(* C24 *)

\* the registration calls made for the task at position k
CallsOf(k) == SelectSeq(regLog, LAMBDA c : c.task = k)

\* the registration loop is past the task at position k
Dispatched(k) == pc = "serve" \/ (pc \in {"register", "failed"} /\ k < next)

\* C24: no task causes two registration calls, and once the loop is past a
\* task it has caused exactly one, that of the first rule that applies to it:
\* middleware with a route gets a hook on its route, middleware without a
\* route an unconditional hook, a plugin with a prefix a register call with
\* the prefix, any other plugin a register call without one.
C24_ExactlyOneDispatchRule ==
  \A k \in 1..Len(pluginTasks) :
    LET t == pluginTasks[k]
    IN /\ Len(CallsOf(k)) <= 1
       /\ Len(HooksOf(k)) <= 1
       /\ Dispatched(k) =>
            /\ Len(CallsOf(k)) = 1
            /\ Len(HooksOf(k)) = 1
            /\ LET c == CallsOf(k)[1]
                   h == HooksOf(k)[1]
               IN IF t.isMiddleware /\ Truthy(t.route)
                  THEN c.call = "addHook" /\ h.test = "routeEq" /\ h.arg = SlashApi \o t.route
                  ELSE IF t.isMiddleware
                  THEN c.call = "addHook" /\ h.test = "always" /\ h.nargs = 2
                  ELSE IF Truthy(t.prefix)
                  THEN /\ c.call = "register" /\ h.nargs = 3
                       /\ c.prefix = FullPrefix(dir.path, t.prefix)
                  ELSE c.call = "register" /\ h.nargs = 3 /\ c.prefix = Undef

\* the registration is over for a task list that holds a task of each of the
\* four kinds
C24_Witness ==
  /\ pc = "serve"
  /\ \E a, b, c, d \in 1..Len(pluginTasks) :
       /\ pluginTasks[a].isMiddleware /\ Truthy(pluginTasks[a].route)
       /\ pluginTasks[b].isMiddleware /\ ~Truthy(pluginTasks[b].route)
       /\ ~pluginTasks[c].isMiddleware /\ Truthy(pluginTasks[c].prefix)
       /\ ~pluginTasks[d].isMiddleware /\ ~Truthy(pluginTasks[d].prefix)

-----------------------------------------------------------------------------
(* C25 *)

\* the paths of the .ts/.js files below entries whose import yields a
\* function, depth first in listing order
RECURSIVE DepthFirst(_, _)
DepthFirst(entries, parent) ==
  IF entries = <<>> THEN <<>>
  ELSE LET e == Head(entries)
           here == IF e.kind = "dir"
                   THEN DepthFirst(e.entries, Append(parent, e.name))
                   ELSE IF IsScript(e.name) /\ e.mod.status = "fn"
                        THEN <<Append(parent, e.name)>>
                        ELSE <<>>
       IN here \o DepthFirst(Tail(entries), parent)

\* the order in which the scan is to discover the files: middleware/ first,
\* then the other entries of the root
DiscoveryOrder ==
  IF ~dir.exists THEN <<>>
  ELSE DepthFirst(SelectSeq(dir.entries, LAMBDA e : e.name = Middleware), <<>>)
       \o DepthFirst(SelectSeq(dir.entries, LAMBDA e : e.name # Middleware), <<>>)

PathsOf(tasks) == [k \in 1..Len(tasks) |-> tasks[k].handler.fn]

IsPrefixOf(s, t) == Len(s) <= Len(t) /\ s = SubSeq(t, 1, Len(s))

\* C25: at most one import is in flight; the tasks are appended in depth-first
\* listing order (while the scan runs the list is an initial part of that
\* order, afterwards the whole of it); and the registration calls are made
\* one task after the other in list order, each one's hook installed before
\* the next call is made.
C25_ScanAndRegistrationSequential ==
  /\ Len(importing) <= 1
  /\ pc = "scan" => IsPrefixOf(PathsOf(pluginTasks), DiscoveryOrder)
  /\ Scanned => PathsOf(collected) = DiscoveryOrder
  /\ \A i \in 1..Len(regLog) : regLog[i].task = i
  /\ \A i \in 1..Len(hooks) : hooks[i].task = i
  /\ Len(regLog) - Len(hooks) \in
       (IF pc = "failed" THEN {1} ELSE {0})

\* the scan went through V/ and its nested U/, three tasks in depth-first
\* order, and every task has been registered
C25_Witness ==
  /\ pc = "serve"
  /\ Len(hooks) = Len(pluginTasks)
  /\ \E k \in 1..(Len(collected) - 2) :
       SubSeq(PathsOf(collected), k, k + 2) =
         << << <<"V">>, N_a_pg_ts >>,
            << <<"V">>, <<"U">>, N_i_ts >>,
            << <<"V">>, <<"U">>, N_c_ts >> >>

-----------------------------------------------------------------------------
(* C26 *)

-----------------------------------------------------------------------------
(* C27 *)

\* C27: the second scan of an unchanged directory tree yields the task list of
\* the first, before and after the sort: the same files at the same
\* positions, with the same isMiddleware, route, prefix and order.
C27_RescanYieldsSameTasks ==
  (previous # <<>> /\ Scanned)
    => /\ Summary(pluginTasks) = previous[1].sorted
       /\ Summary(collected) = previous[1].collected

\* the second scan of a tree with at least three tasks, which the sort
\* reordered, is over
C27_Witness ==
  /\ previous # <<>>
  /\ Scanned
  /\ Len(pluginTasks) >= 3
  /\ pluginTasks # collected

-----------------------------------------------------------------------------
(* C28 *)

\* a source file of the API path is on disk
HasSource(apiPath) == \E f \in ApiScripts : ApiPathOf(f) = apiPath /\ apiDisk[f] # "absent"

\* C28: while a reloadApi call is in progress, every API path that had a
\* handler when the call started and whose source file still exists has a
\* handler in apiHandlers.
C28_NoPathWithoutHandlerDuringReload ==
  \A i \in 1..Len(apiPasses) :
    \A apiPath \in ApiPaths :
      (apiPasses[i].before[apiPath].kind # "none" /\ HasSource(apiPath))
        => apiHandlers[apiPath].kind # "none"

-----------------------------------------------------------------------------
(* C29 *)

\* C29: when an import of reloadApi has failed or yielded no function, the
\* API path of the file is mapped to the handler that answers 500, whatever
\* it was mapped to before, the handlers of all other paths are as they were
\* before the import settled, and every .ts/.js file that was still to
\* visit is still to visit.
C29_FailedImportMapsTo500 ==
  \A k \in 1..Len(lastSettle) :
    LET l == lastSettle[k]
    IN ~l.ok =>
         /\ l.after[ApiPathOf(l.file)] = FailedHandler
         /\ \A q \in ApiPaths \ {ApiPathOf(l.file)} : l.after[q] = l.before[q]
         /\ \A j \in 2..Len(l.todo) :
              (l.todo[j].kind = "file" /\ IsScript(l.todo[j].name))
                => \E m \in 1..Len(l.rest) : l.rest[m] = l.todo[j]

\* in the second reload the import of a file failed while another path had a
\* handler and files were still to visit
C29_Witness ==
  /\ lastSettle # <<>>
  /\ ~lastSettle[1].ok
  /\ lastSettle[1].rest # <<>>
  /\ \E q \in ApiPaths \ {ApiPathOf(lastSettle[1].file)} : lastSettle[1].before[q].kind = "fn"
  /\ apiReloads = 2

-----------------------------------------------------------------------------
(* C21 *)

\* a request has been served by the client middleware hook
CmServed == cmPc = "serve" /\ cmUrl # Undef

\* the handler of the task at position k was invoked by the last request
CmRan(k) == \E i \in 1..Len(cmCalls) : cmCalls[i] = k

-----------------------------------------------------------------------------
(* C22 *)

\* the callbacks the last operation made to the watcher at position i
CallbacksTo(i) == SelectSeq(notified, LAMBDA n : n.watcher = i)

\* C22: after a set, update, delete or clear, a watcher whose selected value
\* the operation changed has been called once, with the new and the old
\* value, and a watcher whose selected value it left unchanged has not been
\* called.
C22_WatcherCalledOnEveryChange ==
  \A o \in 1..Len(lastOp) :
    \A i \in 1..Len(watchers) :
      LET new == lastOp[o].after[watchers[i]]
          old == lastOp[o].before[watchers[i]]
      IN IF new # old
         THEN CallbacksTo(i) = <<[watcher |-> i, new |-> new, old |-> old]>>
         ELSE CallbacksTo(i) = <<>>

\* a push or a replace was made with announce = false, and no callback was
\* registered or removed since
SilentNavigation == routerOp.op \in {"push", "replace"} /\ ~routerOp.announce

\* C23: a push or a replace made with announce = false invokes no `start`,
\* `change` or `complete` listener.
C23_SilentNavigationCallsNoListener ==
  SilentNavigation => emitted = <<>>

\* C30: after a push, a replace or a back, whatever beforePopState guards are
\* registered, `loading`, set to true when the navigation starts, is
\* eventually false again.
C30_LoadingEventuallyFalse == loading ~> ~loading

====
